---------------------------- MODULE Spec2Model ----------------------------
(***************************************************************************)
(* Model of FetchPickPlaceSAC/RLLib/Agents/SAC/Core.py: the shape helper   *)
(* combined_shape, the ring replay buffer SACReplayBuffer, the squashed    *)
(* Gaussian actor's forward pass and the MLPActorCritic ensemble.          *)
(*                                                                         *)
(* Three specifications share the variables: BufferSpec (store and         *)
(* sample_batch on a freshly constructed buffer), ActorCriticSpec          *)
(* (construction of the ensemble followed by act calls) and ShapeSpec      *)
(* (combined_shape applied to bounded inputs).                             *)
(***************************************************************************)
EXTENDS Integers, Sequences, FiniteSets, TLC

VARIABLES
    \* SACReplayBuffer fields
    max_size, ptr, size, obs_buf, obs2_buf, act_buf, rew_buf, done_buf,
    \* the last buffer call: its name, arguments and outcome
    ret,
    \* history of the transitions handed to store, oldest first (ghost)
    hist,
    \* MLPActorCritic: construction state, per-parameter requires_grad flags,
    \* the actor's parameters and action range
    built, requires_grad, theta, act_min, act_max,
    \* the last two act calls: observation, flag and returned action
    last, prev,
    \* combined_shape: the call's inputs and, once applied, its result
    cs

bufvars == <<max_size, ptr, size, obs_buf, obs2_buf, act_buf, rew_buf, done_buf>>
netvars == <<built, requires_grad, theta, act_min, act_max, last, prev>>
vars == <<max_size, ptr, size, obs_buf, obs2_buf, act_buf, rew_buf, done_buf,
          ret, hist, built, requires_grad, theta, act_min, act_max, last, prev, cs>>

---------------------------------------------------------------------------
(* Bounds of the model *)

MaxCap == 3         \* largest buffer capacity tried
MaxStores == 5      \* store calls per run
MaxBatch == 2       \* largest batch_size tried
ObsDim == 2         \* obs_dim of the buffer
ActDim == 1         \* act_dim of the buffer
MaxLength == 3      \* largest length given to combined_shape
MaxShapeEntry == 3  \* largest scalar shape / tuple entry given to combined_shape
MaxRank == 2        \* longest tuple shape given to combined_shape

Min(a, b) == IF a < b THEN a ELSE b
Abs(a) == IF a < 0 THEN -a ELSE a

---------------------------------------------------------------------------
(* float32: a value is rounded to 24 significant bits, ties to even.       *)
(* Rounding to significant bits does not depend on the unit the integer    *)
(* counts, so the same operator serves every fixed-point scale used below. *)

Float32Bits == 24

RECURSIVE UlpOf(_)
UlpOf(n) == IF n < 2^Float32Bits THEN 1 ELSE 2 * UlpOf(n \div 2)

RoundNat(n) ==
    LET u == UlpOf(n)
        q == n \div u
        r == n % u
    IN  IF 2 * r > u \/ (2 * r = u /\ q % 2 = 1) THEN (q + 1) * u ELSE q * u

AsFloat32(n) == IF n < 0 THEN -RoundNat(-n) ELSE RoundNat(n)

---------------------------------------------------------------------------
(* combined_shape *)

NoneShape == [kind |-> "none"]
ScalarShape(n) == [kind |-> "scalar", v |-> n]
TupleShape(s) == [kind |-> "tuple", v |-> s]

isscalar(shape) == shape.kind = "scalar"

combined_shape_scalar_dropped(length, shape) ==
    IF shape.kind = "none" \/ isscalar(shape) THEN <<length>>
    ELSE <<length>> \o shape.v

combined_shape(length, shape) ==
    IF shape.kind = "none" THEN <<length>>
    ELSE IF isscalar(shape) THEN <<length, shape.v>>
    ELSE <<length>> \o shape.v

\* np.zeros(shape, dtype=np.float32) for the one- and two-dimensional shapes
\* the buffer allocates; rows are indexed from 0, row entries from 1
zeros(shape) ==
    IF Len(shape) = 1 THEN [i \in 0..(shape[1] - 1) |-> 0]
    ELSE [i \in 0..(shape[1] - 1) |-> [k \in 1..shape[2] |-> 0]]

---------------------------------------------------------------------------
(* SACReplayBuffer *)

Vec(dim, v) == [k \in 1..dim |-> v]

\* the transitions offered to store: distinct markers, every field of one
\* marker differing from the same field of every other marker except done
Transition(m) ==
    [obs |-> Vec(ObsDim, m), act |-> Vec(ActDim, -m), rew |-> 10 * m,
     next_obs |-> Vec(ObsDim, m + 1), done |-> m % 2]

\* the n-th store offers the fresh marker n or offers marker 1 again
Markers(n) == {n, 1}

None == [call |-> "none"]

\* assignment into a float32 array casts the value
CastRow(row) == [k \in DOMAIN row |-> AsFloat32(row[k])]

BufferInit(obs_dim, act_dim, cap) ==
    /\ obs_buf = zeros(combined_shape(cap, ScalarShape(obs_dim)))
    /\ obs2_buf = zeros(combined_shape(cap, ScalarShape(obs_dim)))
    /\ act_buf = zeros(combined_shape(cap, ScalarShape(act_dim)))
    /\ rew_buf = zeros(<<cap>>)
    /\ done_buf = zeros(<<cap>>)
    /\ ptr = 0 /\ size = 0 /\ max_size = cap
    /\ ret = None
    /\ hist = <<>>

store_saturating_ptr(obs, act, rew, next_obs, done) ==
    /\ Len(hist) < MaxStores
    /\ obs_buf' = [obs_buf EXCEPT ![ptr] = CastRow(obs)]
    /\ obs2_buf' = [obs2_buf EXCEPT ![ptr] = CastRow(next_obs)]
    /\ act_buf' = [act_buf EXCEPT ![ptr] = CastRow(act)]
    /\ rew_buf' = [rew_buf EXCEPT ![ptr] = AsFloat32(rew)]
    /\ done_buf' = [done_buf EXCEPT ![ptr] = AsFloat32(done)]
    /\ ptr' = IF ptr + 1 = max_size THEN ptr ELSE ptr + 1
    /\ size' = Min(size + 1, max_size)
    /\ max_size' = max_size
    /\ ret' = [call |-> "store"]
    /\ hist' = Append(hist, [obs |-> obs, act |-> act, rew |-> rew,
                             next_obs |-> next_obs, done |-> done])

store_unbounded_size(obs, act, rew, next_obs, done) ==
    /\ Len(hist) < MaxStores
    /\ obs_buf' = [obs_buf EXCEPT ![ptr] = CastRow(obs)]
    /\ obs2_buf' = [obs2_buf EXCEPT ![ptr] = CastRow(next_obs)]
    /\ act_buf' = [act_buf EXCEPT ![ptr] = CastRow(act)]
    /\ rew_buf' = [rew_buf EXCEPT ![ptr] = AsFloat32(rew)]
    /\ done_buf' = [done_buf EXCEPT ![ptr] = AsFloat32(done)]
    /\ ptr' = (ptr + 1) % max_size
    /\ size' = size + 1
    /\ max_size' = max_size
    /\ ret' = [call |-> "store"]
    /\ hist' = Append(hist, [obs |-> obs, act |-> act, rew |-> rew,
                             next_obs |-> next_obs, done |-> done])

store_act_misplaced(obs, act, rew, next_obs, done) ==
    /\ Len(hist) < MaxStores
    /\ obs_buf' = [obs_buf EXCEPT ![ptr] = CastRow(obs)]
    /\ obs2_buf' = [obs2_buf EXCEPT ![ptr] = CastRow(next_obs)]
    /\ act_buf' = [act_buf EXCEPT ![(ptr + 1) % max_size] = CastRow(act)]
    /\ rew_buf' = [rew_buf EXCEPT ![ptr] = AsFloat32(rew)]
    /\ done_buf' = [done_buf EXCEPT ![ptr] = AsFloat32(done)]
    /\ ptr' = (ptr + 1) % max_size
    /\ size' = Min(size + 1, max_size)
    /\ max_size' = max_size
    /\ ret' = [call |-> "store"]
    /\ hist' = Append(hist, [obs |-> obs, act |-> act, rew |-> rew,
                             next_obs |-> next_obs, done |-> done])

store(obs, act, rew, next_obs, done) ==
    /\ Len(hist) < MaxStores
    /\ obs_buf' = [obs_buf EXCEPT ![ptr] = CastRow(obs)]
    /\ obs2_buf' = [obs2_buf EXCEPT ![ptr] = CastRow(next_obs)]
    /\ act_buf' = [act_buf EXCEPT ![ptr] = CastRow(act)]
    /\ rew_buf' = [rew_buf EXCEPT ![ptr] = AsFloat32(rew)]
    /\ done_buf' = [done_buf EXCEPT ![ptr] = AsFloat32(done)]
    /\ ptr' = (ptr + 1) % max_size
    /\ size' = Min(size + 1, max_size)
    /\ max_size' = max_size
    /\ ret' = [call |-> "store"]
    /\ hist' = Append(hist, [obs |-> obs, act |-> act, rew |-> rew,
                             next_obs |-> next_obs, done |-> done])

\* np.random.randint(low, high, size=n): the set of its possible outcomes.
\* A request for no elements returns the empty array before the range is
\* looked at; otherwise an empty range raises ValueError("low >= high").
randint(low, high, n) ==
    IF n = 0 THEN {[raised |-> FALSE, v |-> <<>>]}
    ELSE IF low >= high THEN {[raised |-> TRUE, v |-> <<>>]}
    ELSE {[raised |-> FALSE, v |-> f] : f \in [1..n -> low..(high - 1)]}

\* array[indexes]: the rows at the drawn indexes, in order
Gather(array, indexes) == [i \in DOMAIN indexes |-> array[indexes[i]]]

\* torch.as_tensor(v, dtype=torch.float32) of rows or of scalars
as_tensor_rows(rows) == [i \in DOMAIN rows |-> CastRow(rows[i])]
as_tensor_scalars(xs) == [i \in DOMAIN xs |-> AsFloat32(xs[i])]

sample_batch_any_slot(batch_size) ==
    /\ \E indexes \in randint(0, max_size, batch_size) :
         ret' = IF indexes.raised
                THEN [call |-> "sample_batch", batch_size |-> batch_size,
                      outcome |-> "ValueError"]
                ELSE [call |-> "sample_batch", batch_size |-> batch_size,
                      outcome |-> "return",
                      value |-> [obs |-> as_tensor_rows(Gather(obs_buf, indexes.v)),
                                 obs2 |-> as_tensor_rows(Gather(obs2_buf, indexes.v)),
                                 act |-> as_tensor_rows(Gather(act_buf, indexes.v)),
                                 rew |-> as_tensor_scalars(Gather(rew_buf, indexes.v)),
                                 done |-> as_tensor_scalars(Gather(done_buf, indexes.v))]]
    /\ UNCHANGED <<bufvars, hist>>

sample_batch_consuming(batch_size) ==
    /\ \E indexes \in randint(0, size, batch_size) :
         ret' = IF indexes.raised
                THEN [call |-> "sample_batch", batch_size |-> batch_size,
                      outcome |-> "ValueError"]
                ELSE [call |-> "sample_batch", batch_size |-> batch_size,
                      outcome |-> "return",
                      value |-> [obs |-> as_tensor_rows(Gather(obs_buf, indexes.v)),
                                 obs2 |-> as_tensor_rows(Gather(obs2_buf, indexes.v)),
                                 act |-> as_tensor_rows(Gather(act_buf, indexes.v)),
                                 rew |-> as_tensor_scalars(Gather(rew_buf, indexes.v)),
                                 done |-> as_tensor_scalars(Gather(done_buf, indexes.v))]]
    /\ size' = IF size > 0 THEN size - 1 ELSE size
    /\ UNCHANGED <<max_size, ptr, obs_buf, obs2_buf, act_buf, rew_buf, done_buf, hist>>

sample_batch(batch_size) ==
    /\ \E indexes \in randint(0, size, batch_size) :
         ret' = IF indexes.raised
                THEN [call |-> "sample_batch", batch_size |-> batch_size,
                      outcome |-> "ValueError"]
                ELSE [call |-> "sample_batch", batch_size |-> batch_size,
                      outcome |-> "return",
                      value |-> [obs |-> as_tensor_rows(Gather(obs_buf, indexes.v)),
                                 obs2 |-> as_tensor_rows(Gather(obs2_buf, indexes.v)),
                                 act |-> as_tensor_rows(Gather(act_buf, indexes.v)),
                                 rew |-> as_tensor_scalars(Gather(rew_buf, indexes.v)),
                                 done |-> as_tensor_scalars(Gather(done_buf, indexes.v))]]
    /\ UNCHANGED <<bufvars, hist>>

Store ==
    \E m \in Markers(Len(hist) + 1) :
        LET t == Transition(m)
        IN  /\ store(t.obs, t.act, t.rew, t.next_obs, t.done)
            /\ UNCHANGED <<netvars, cs>>

SampleBatch ==
    /\ \E batch_size \in 0..MaxBatch : sample_batch(batch_size)
    /\ UNCHANGED <<netvars, cs>>

---------------------------------------------------------------------------
(* mlp, parameters and freeze_thaw_parameters *)

\* mlp(sizes, activation, output_activation): one Linear layer per adjacent
\* pair of sizes, the last followed by output_activation
mlp(sizes, activation, output_activation) ==
    [j \in 1..(Len(sizes) - 1) |->
        [in |-> sizes[j], out |-> sizes[j + 1],
         act |-> IF j < Len(sizes) - 1 THEN activation ELSE output_activation]]

\* the networks are built for obs_dim = 1, act_dim = 1, hidden_sizes = (1,)
ActorSizes == <<1, 1>>
CriticSizes == <<1 + 1, 1, 1>>

\* a parameter is named by its module, its sub-module, the layer and its kind
LinearParams(module, sub, layer) ==
    {<<module, sub, layer, "weight">>, <<module, sub, layer, "bias">>}

ActorParams(module) ==
    LET net == mlp(ActorSizes, "ReLU", "ReLU")
    IN  UNION {LinearParams(module, "net", j) : j \in DOMAIN net}
        \cup LinearParams(module, "mu_layer", 1)
        \cup LinearParams(module, "log_std_layer", 1)

QParams(module) ==
    LET q == mlp(CriticSizes, "ReLU", "Identity")
    IN  UNION {LinearParams(module, "q", j) : j \in DOMAIN q}

Critics == {"q1", "q2", "q1targ", "q2targ"}
Modules == {"pi"} \cup Critics

parameters(module) == IF module = "pi" THEN ActorParams(module) ELSE QParams(module)

AllParams == UNION {parameters(m) : m \in Modules}

freeze_thaw_inverted(rg, module, freeze) ==
    [p \in DOMAIN rg |->
        IF p \in parameters(module) THEN (IF freeze THEN TRUE ELSE FALSE) ELSE rg[p]]

freeze_thaw_parameters(rg, module, freeze) ==
    [p \in DOMAIN rg |->
        IF p \in parameters(module) THEN (IF freeze THEN FALSE ELSE TRUE) ELSE rg[p]]

---------------------------------------------------------------------------
(* SquashedGaussianMLPActor.forward *)

LOG_STD_MAX == 2
LOG_STD_MIN == -20
squish_min == -1
squish_max == 1

\* Fixed-point scales.  Pre-squash values count thousandths; tanh values
\* count eighths; the action range counts 2^-24 (every float32 in [1/2, 2]
\* is a whole number of them) and a returned action counts 2^-28.
Milli == 10^3
TanhGrid == 2^3
ActUnit == 2^24
OutPerAct == TanhGrid * (squish_max - squish_min)

relu(x) == IF x > 0 THEN x ELSE 0

clamp(x, lo, hi) == IF x < lo THEN lo ELSE IF x > hi THEN hi ELSE x

\* torch.exp on the clamped integer log_std, in thousandths
exp(k) ==
    CASE k = 2 -> 7389 [] k = 1 -> 2718 [] k = 0 -> 1000 [] k = -1 -> 368
      [] k = -2 -> 135 [] k = -3 -> 50 [] k = -4 -> 18 [] k = -5 -> 7
      [] k = -6 -> 2 [] k = -7 -> 1 [] OTHER -> 0

\* torch.tanh on a float32, to the nearest eighth below saturation (the
\* thresholds are atanh of the odd sixteenths, in thousandths); a float32
\* tanh is exactly 1.0 once 1 - tanh(x) < 2^-25, that is from x = 9.011 on.
tanh(x) ==
    LET a == Abs(x)
        t == IF a >= 9011 THEN 8 ELSE IF a >= 1134 THEN 7 ELSE IF a >= 843 THEN 6
             ELSE IF a >= 637 THEN 5 ELSE IF a >= 469 THEN 4 ELSE IF a >= 323 THEN 3
             ELSE IF a >= 190 THEN 2 ELSE IF a >= 63 THEN 1 ELSE 0
    IN  IF x < 0 THEN -t ELSE t

\* the actor's parameters: one weight and one bias per Linear layer
TrunkVals == {0, 2}
HeadVals == {-2, 0, 2}
Thetas == [w1 : TrunkVals, b1 : TrunkVals, wm : HeadVals, bm : HeadVals,
           ws : HeadVals, bs : HeadVals]

\* observations given to act, and the values the noise source may yield
NetObs == {0, 5}
Noise == {-2, 1}

\* float32 action ranges (low[0], high[0]): [-1, 1], [1, 1] and [-1, 0.7],
\* 0.7 being the float32 11744051 * 2^-24
F32_0_7 == AsFloat32((7 * ActUnit) \div 10)
ActRanges == {<<-ActUnit, ActUnit>>, <<ActUnit, ActUnit>>, <<-ActUnit, F32_0_7>>}

pre_squash_always_sampled(mu, std, deterministic, eps) ==
    Milli * mu + std * eps

\* lines 76-81: the mean when deterministic, else rsample() = mu + std * eps
pre_squash(mu, std, deterministic, eps) ==
    IF deterministic THEN Milli * mu ELSE Milli * mu + std * eps

\* lines 103-106 in float32: (t - squish_min) / (squish_max - squish_min) is
\* exact, the range's width, the product and the sum are each rounded
rescale(t, lo, hi) ==
    LET k == t - TanhGrid * squish_min
        width == AsFloat32(hi - lo)
        prod == AsFloat32(k * width)
    IN  AsFloat32(prod + OutPerAct * lo)

\* the action returned by forward(obs, deterministic, with_logprob); the
\* log-probability branch (lines 83-92) reads pi_action and leaves it alone
forward(th, lo, hi, obs, deterministic, eps) ==
    LET net_out == relu(th.w1 * obs + th.b1)
        mu == th.wm * net_out + th.bm
        log_std == clamp(th.ws * net_out + th.bs, LOG_STD_MIN, LOG_STD_MAX)
        std == exp(log_std)
        pi_action == pre_squash(mu, std, deterministic, eps)
    IN  rescale(tanh(pi_action), lo, hi)

---------------------------------------------------------------------------
(* MLPActorCritic *)

NoCall == [call |-> "none"]

\* __init__: the five networks are built with every parameter trainable
\* (torch's default), then the two target critics are frozen
Construct ==
    /\ ~built
    /\ \E th \in Thetas, r \in ActRanges :
         /\ theta' = th
         /\ act_min' = r[1]
         /\ act_max' = r[2]
    /\ requires_grad' =
         freeze_thaw_parameters(
             freeze_thaw_parameters([p \in AllParams |-> TRUE], "q1targ", TRUE),
             "q2targ", TRUE)
    /\ built' = TRUE
    /\ UNCHANGED <<last, prev, bufvars, ret, hist, cs>>

\* act(obs, deterministic): forward with with_logprob = False under no_grad;
\* eps is what the noise source yields during the call
act(obs, deterministic) ==
    /\ built
    /\ \E eps \in Noise :
         last' = [call |-> "act", obs |-> obs, deterministic |-> deterministic,
                  eps |-> eps,
                  a |-> forward(theta, act_min, act_max, obs, deterministic, eps)]
    /\ prev' = last
    /\ UNCHANGED <<built, requires_grad, theta, act_min, act_max>>

Act ==
    /\ \E obs \in NetObs, deterministic \in BOOLEAN : act(obs, deterministic)
    /\ UNCHANGED <<bufvars, ret, hist, cs>>

---------------------------------------------------------------------------
(* combined_shape applied to bounded inputs *)

RECURSIVE SeqsUpTo(_, _)
SeqsUpTo(S, n) ==
    IF n = 0 THEN {<<>>}
    ELSE LET shorter == SeqsUpTo(S, n - 1)
         IN  shorter \cup {Append(q, x) : q \in {r \in shorter : Len(r) = n - 1}, x \in S}

Shapes ==
    {NoneShape}
    \cup {ScalarShape(n) : n \in 0..MaxShapeEntry}
    \cup {TupleShape(q) : q \in SeqsUpTo(1..MaxShapeEntry, MaxRank)}

CombinedShape ==
    /\ ~cs.done
    /\ cs' = [done |-> TRUE, length |-> cs.length, shape |-> cs.shape,
              result |-> combined_shape(cs.length, cs.shape)]
    /\ UNCHANGED <<bufvars, ret, hist, netvars>>

---------------------------------------------------------------------------
(* Specifications *)

BufferIdle == BufferInit(ObsDim, ActDim, 1)

NetInit ==
    /\ built = FALSE
    /\ requires_grad = <<>>
    /\ theta = [unset |-> TRUE]
    /\ act_min = 0
    /\ act_max = 0
    /\ last = NoCall
    /\ prev = NoCall

ShapeIdle == cs = [done |-> TRUE, length |-> 0, shape |-> NoneShape, result |-> <<0>>]

BufferStart ==
    /\ \E cap \in 1..MaxCap : BufferInit(ObsDim, ActDim, cap)
    /\ NetInit
    /\ ShapeIdle

BufferNext == Store \/ SampleBatch

BufferSpec == BufferStart /\ [][BufferNext]_vars

ActorCriticStart == BufferIdle /\ NetInit /\ ShapeIdle

ActorCriticNext == Construct \/ Act

ActorCriticSpec == ActorCriticStart /\ [][ActorCriticNext]_vars

ShapeStart ==
    /\ BufferIdle
    /\ NetInit
    /\ \E length \in 0..MaxLength, shape \in Shapes :
         cs = [done |-> FALSE, length |-> length, shape |-> shape]

ShapeNext == CombinedShape

ShapeSpec == ShapeStart /\ [][ShapeNext]_vars

---------------------------------------------------------------------------
(* Properties of the replay buffer (BufferSpec) *)

\* the transition held at slot j of the five arrays
Slot(j) ==
    [obs |-> obs_buf[j], act |-> act_buf[j], rew |-> rew_buf[j],
     next_obs |-> obs2_buf[j], done |-> done_buf[j]]

Stores == Len(hist)

\* the 1-based position in hist of the latest store that wrote slot j
LatestStore(j) ==
    CHOOSE i \in 1..Stores :
        /\ (i - 1) % max_size = j
        /\ \A i2 \in 1..Stores : (i2 - 1) % max_size = j => i2 <= i

\* C1: after N stores on a fresh buffer of capacity max_size >= 1, size = N
\* while N <= max_size; once N > max_size, size = max_size and the
\* transitions held in the slots are exactly the last max_size stored ones.
C1_RingHoldsMostRecent ==
    /\ max_size >= 1
    /\ Stores <= max_size => size = Stores
    /\ Stores > max_size =>
         /\ size = max_size
         /\ {Slot(j) : j \in 0..(max_size - 1)}
              = {hist[i] : i \in (Stores - max_size + 1)..Stores}

\* C1 witness: more stores than capacity, on a buffer of capacity above one,
\* the evicted first transition differing from every one still held
C1_Witness ==
    /\ max_size > 1
    /\ Stores > max_size
    /\ \A j \in 0..(max_size - 1) : Slot(j) # hist[1]

\* C2: after N stores ptr = N mod max_size, 0 <= ptr < max_size, every slot
\* j < size holds the latest stored transition whose 0-based store index is
\* congruent to j modulo max_size; with max_size = 3 and transitions 1..5
\* stored, slots 0, 1, 2 hold transitions 4, 5, 3 and size = 3.
C2_CursorAndSlots ==
    /\ ptr = Stores % max_size
    /\ 0 <= ptr /\ ptr < max_size
    /\ \A j \in 0..(size - 1) : Slot(j) = hist[LatestStore(j)]
    /\ (max_size = 3 /\ hist = [i \in 1..5 |-> Transition(i)]) =>
         /\ size = 3
         /\ Slot(0) = Transition(4)
         /\ Slot(1) = Transition(5)
         /\ Slot(2) = Transition(3)

\* C2 witness: the scenario itself, capacity 3 after storing transitions 1..5
C2_Witness ==
    /\ max_size = 3
    /\ hist = [i \in 1..5 |-> Transition(i)]
    /\ ptr = 2

BatchKeys == {"obs", "obs2", "act", "rew", "done"}

\* row i of a returned batch, as a transition
BatchRow(value, i) ==
    [obs |-> value.obs[i], act |-> value.act[i], rew |-> value.rew[i],
     next_obs |-> value.obs2[i], done |-> value.done[i]]

Sampled == ret.call = "sample_batch"

\* C3: with size >= 1, sample_batch(k) for k >= 1 returns a mapping with
\* exactly the keys obs, obs2, act, rew, done, each of k rows, row i of all
\* five being the content of one slot index below size, hence a transition
\* that was stored.
C3_BatchRowsAreStoredSlots ==
    (Sampled /\ size >= 1 /\ ret.batch_size >= 1) =>
        /\ ret.outcome = "return"
        /\ DOMAIN ret.value = BatchKeys
        /\ \A key \in BatchKeys : DOMAIN ret.value[key] = 1..ret.batch_size
        /\ \A i \in 1..ret.batch_size :
             /\ \E j \in 0..(size - 1) : BatchRow(ret.value, i) = Slot(j)
             /\ \E n \in 1..Stores : BatchRow(ret.value, i) = hist[n]

\* C3 witness: a batch of two rows drawn from a partly filled buffer, the
\* same slot drawn twice
C3_Witness ==
    /\ Sampled
    /\ ret.outcome = "return"
    /\ ret.batch_size = 2
    /\ 1 <= size /\ size < max_size
    /\ BatchRow(ret.value, 1) = BatchRow(ret.value, 2)

\* C4: sample_batch on a buffer with size = 0 ends in an error and returns
\* no batch.
C4_EmptySampleRaises ==
    (Sampled /\ size = 0) => ret.outcome = "ValueError"

\* a step that is a store call / a sample_batch call
StoreStep == hist' # hist
SampleStep == hist' = hist /\ ret'.call = "sample_batch"

\* C5: sample_batch leaves ptr, size, max_size and the five arrays
\* unchanged; size never decreases, growing by one per store up to max_size.
C5_OnlyStoreMutates ==
    [][/\ SampleStep => UNCHANGED bufvars
       /\ size' >= size
       /\ StoreStep => size' = (IF size < max_size THEN size + 1 ELSE max_size)]_vars

\* C5 witness: a batch returned from a buffer that has wrapped
C5_Witness ==
    /\ Sampled
    /\ ret.outcome = "return"
    /\ ret.batch_size >= 1
    /\ Stores > max_size

\* the transition held at slot j after the step
SlotAfter(j) ==
    [obs |-> obs_buf'[j], act |-> act_buf'[j], rew |-> rew_buf'[j],
     next_obs |-> obs2_buf'[j], done |-> done_buf'[j]]

\* C10: a store changes, in each array, only the slot at the pre-call ptr,
\* writing there the five fields of the one transition stored; every other
\* slot and max_size are unchanged, so each slot below size holds all five
\* fields of one stored transition.
C10_StoreWritesOneSlot ==
    [][StoreStep =>
         /\ SlotAfter(ptr) = hist'[Len(hist')]
         /\ \A j \in 0..(max_size - 1) : j # ptr => SlotAfter(j) = Slot(j)
         /\ max_size' = max_size
         /\ \A j \in 0..(size' - 1) :
              \E n \in 1..Len(hist') : SlotAfter(j) = hist'[n]]_vars

\* C10 witness: a store has just overwritten a slot of a buffer of capacity
\* above one
C10_Witness ==
    /\ ret.call = "store"
    /\ max_size > 1
    /\ Stores > max_size

---------------------------------------------------------------------------
(* Properties of the ensemble and the actor (ActorCriticSpec) *)

Acted(c) == c.call = "act"

\* C6: once constructed, every parameter of q1targ and q2targ has
\* requires_grad false and every parameter of q1, q2 and pi has it true,
\* and this stays so across any sequence of act calls.
C6_TargetsFrozen ==
    built =>
        /\ DOMAIN requires_grad = AllParams
        /\ \A p \in parameters("q1targ") \cup parameters("q2targ") : ~requires_grad[p]
        /\ \A p \in parameters("q1") \cup parameters("q2") \cup parameters("pi") :
             requires_grad[p]

\* C6 witness: two act calls have been made on the constructed ensemble
C6_Witness == built /\ Acted(last) /\ Acted(prev)

\* C7: every action returned by act lies in [act_min, act_max].
C7_ActionWithinRange ==
    Acted(last) =>
        /\ OutPerAct * act_min <= last.a
        /\ last.a <= OutPerAct * act_max

\* C8: two deterministic act calls on the same observation, with the same
\* parameters, return the same action whatever the noise source yields.
C8_DeterministicIgnoresNoise ==
    (Acted(last) /\ Acted(prev) /\ last.deterministic /\ prev.deterministic
        /\ last.obs = prev.obs)
      => last.a = prev.a

\* C8 witness: two deterministic calls on one observation under different
\* noise, where a sampled call on it would have returned another action
C8_Witness ==
    /\ Acted(last) /\ Acted(prev)
    /\ last.deterministic /\ prev.deterministic
    /\ last.obs = prev.obs
    /\ last.eps # prev.eps
    /\ \E eps \in Noise :
         forward(theta, act_min, act_max, last.obs, FALSE, eps) # last.a

---------------------------------------------------------------------------
(* Properties of combined_shape (ShapeSpec) *)

\* C9 as stated: (length,) when shape is absent or a scalar, (length, *shape)
\* when shape is a tuple.
C9_ScalarGivesLengthOnly ==
    cs.done =>
        /\ (cs.shape.kind \in {"none", "scalar"} => cs.result = <<cs.length>>)
        /\ (cs.shape.kind = "tuple" => cs.result = <<cs.length>> \o cs.shape.v)

\* C9 amended: (length,) when shape is absent, (length, shape) when shape is
\* a scalar, (length, *shape) when shape is a tuple.
C9_CombinedShape ==
    cs.done =>
        /\ (cs.shape.kind = "none" => cs.result = <<cs.length>>)
        /\ (cs.shape.kind = "scalar" => cs.result = <<cs.length, cs.shape.v>>)
        /\ (cs.shape.kind = "tuple" => cs.result = <<cs.length>> \o cs.shape.v)

\* C9 witness: combined_shape has been applied to a scalar shape
C9_Witness == cs.done /\ cs.shape.kind = "scalar" /\ Len(cs.result) = 2

=============================================================================
